---- MODULE Spec2Model ----
(***************************************************************************)
(* Model of the configuration/namespace resolver of EKSInfraCDK:           *)
(*   - config/path_builder.py : PathBuilder (parameter-store paths)        *)
(*   - app.py                 : tenant/environment dispatch                *)
(*   - pipelines/infra_pipeline.py, stages/*.py : pipeline assembly        *)
(*   - config/config.py       : load_configurations                        *)
(*   - stacks/toolchain_stack.py : ToolchainStack (ECR repositories)      *)
(*   - lambdas/db_initializer  : the database initializer handler          *)
(*                                                                         *)
(* Python strings are TLA+ strings (Len, SubSeq and \o work on them).      *)
(* A Python value that may be a string, None or an integer is a record     *)
(* [t, s]: t is the type tag, s the text of the value.                     *)
(***************************************************************************)
EXTENDS Integers, Sequences, FiniteSets, TLC

VARIABLES
    pbs,          \* PathBuilder instances: id -> [tenant_id, environment, config]
    last,         \* id -> the latest call made on that instance and its outcome
    first,        \* history: the first get_ssm_path call on instance 1, and
                  \* whether the same call has been made again since
    pc,           \* position of the app.py invocation
    tenant_id,    \* app.py: context value tenant_id
    target_env,   \* app.py: context value target_env
    environments, \* app.py: the loaded environments document
    stacks,       \* app.py: construct ids of the stacks created so far
    valid_envs,   \* app.py: the enumeration built on the failure branch
    error,        \* app.py: the exception that ended the invocation, if any
    loads,        \* id -> number of times the instance has read its path spec
    tenant_config,  \* app.py: environments[tenant_id][target_env]
    pipeline,       \* InfraPipelineStack: the entries appended so far
    notifications,  \* InfraPipelineStack: the notification bindings attached
                    \* (the rule is created after the last wave; no run
                    \* gets there, see AddInfraStage)
    roles,          \* stages: the IAM roles created by their stacks
    params,         \* stages: the SSM parameter names their stacks use
    grants,         \* stages: the resources (parameter patterns, or "*") on
                    \* which their policies allow SSM actions
    directory,      \* load_configurations: file name -> parsed content
    listed,         \* load_configurations: the file names still to visit
    configurations, \* load_configurations: key -> content loaded so far
    lc,             \* load_configurations: position of the call
    ecr_repositories, \* ToolchainStack: props.ecr_repositories
    ecr_todo,       \* ToolchainStack: the (namespace, repo) entries to visit
    constructs,     \* ToolchainStack: the construct ids in the stack's scope
    repositories,   \* ToolchainStack: the names of the repositories created
    pg,             \* db_initializer: the databases of the server
    script,         \* db_initializer: the text of the SQL script, None when
                    \* the file does not exist
    faults,         \* db_initializer: the operations that fail in this
                    \* environment
    hc,             \* db_initializer: position of the handler
    todo_dbs,       \* db_initializer: the parsed names still to visit
    issued,         \* db_initializer: the statements executed on the
                    \* cursor, with the run and the server's answer
    conn,           \* db_initializer: state of connection and cursor
    responses,      \* db_initializer: what each run returned or raised
    runs            \* db_initializer: number of handler runs started

vars == <<pbs, last, first, pc, tenant_id, target_env, environments,
          stacks, valid_envs, error, loads, tenant_config, pipeline,
          notifications, roles, params, grants, directory, listed,
          configurations, lc, ecr_repositories, ecr_todo, constructs,
          repositories, pg, script, faults, hc, todo_dbs, issued, conn,
          responses, runs>>

pbVars   == <<pbs, last, first, loads>>
asmVars  == <<tenant_config, pipeline, notifications, roles, params, grants>>
loadVars == <<directory, listed, configurations, lc>>
tcVars   == <<ecr_repositories, ecr_todo, constructs, repositories>>
dbVars   == <<pg, script, faults, hc, todo_dbs, issued, conn, responses,
             runs>>
appVars  == <<pc, tenant_id, target_env, environments, stacks, valid_envs,
              error, asmVars>>

----------------------------------------------------------------------------
(* Python values *)

PyStr(s) == [t |-> "str", s |-> s]
PyNone   == [t |-> "none", s |-> ""]
PyInt(s) == [t |-> "int", s |-> s]

\* bool(v): the empty string, None and 0 are falsy
Truthy(v) ==
    CASE v.t = "str"  -> v.s # ""
      [] v.t = "none" -> FALSE
      [] v.t = "int"  -> v.s # "0"

\* str(v), as an f-string formats it
Format(v) == IF v.t = "none" THEN "None" ELSE v.s

\* outcomes of a call: a returned string or a raised exception
Ok(s)       == [kind |-> "ok", val |-> s]
Raise(k, m) == [kind |-> k, val |-> m]

----------------------------------------------------------------------------
(* String helpers *)

StartsWith(s, p) == Len(s) >= Len(p) /\ SubSeq(s, 1, Len(p)) = p

EndsWith(s, p) == Len(s) >= Len(p) /\ SubSeq(s, Len(s) - Len(p) + 1, Len(s)) = p

Contains(s, sub) ==
    \E i \in 1..(Len(s) - Len(sub) + 1) : SubSeq(s, i, i + Len(sub) - 1) = sub

\* sep.join(parts) for a sequence of strings
RECURSIVE Join(_, _)
Join(sep, parts) ==
    IF parts = <<>> THEN ""
    ELSE IF Len(parts) = 1 THEN parts[1]
    ELSE parts[1] \o sep \o Join(sep, Tail(parts))

\* '/'.join(values): str.join raises TypeError on an item that is not a str
JoinSlash(values) ==
    IF \E i \in 1..Len(values) : values[i].t # "str"
    THEN Raise("TypeError", "sequence item: expected str instance")
    ELSE Ok(Join("/", [i \in 1..Len(values) |-> values[i].s]))

----------------------------------------------------------------------------
(* The path specification: nested mappings with scalar leaves *)

Leaf(v)    == [k |-> "leaf", v |-> v, kids |-> <<>>]
Dict(kids) == [k |-> "dict", v |-> PyNone, kids |-> kids]

\* the longest key sequence a caller passes
MaxKeyLen == 2

KeyNames == {"eks", "oidc-id"}

KeySeqs == UNION {[1..n -> KeyNames] : n \in 0..MaxKeyLen}

\* the shape of config/ssm_paths.yaml: group -> name -> segment
PathSpecA ==
    LET eks == ("oidc-id" :> Leaf(PyStr("eks/oidc-id")))
    IN  Dict(("eks" :> Dict(eks)) @@ ("oidc-id" :> Leaf(PyStr("x"))))

\* a segment that equals a tenant name, an empty segment, an empty value
PathSpecB ==
    LET eks == ("oidc-id" :> Leaf(PyStr("a"))) @@ ("eks" :> Leaf(PyStr("")))
    IN  Dict(("eks" :> Dict(eks)) @@ ("oidc-id" :> Leaf(PyNone)))

\* leaves that are numbers, and an empty group
PathSpecC ==
    LET eks == ("oidc-id" :> Leaf(PyInt("5"))) @@ ("eks" :> Leaf(PyInt("0")))
    IN  Dict(("eks" :> Dict(eks)) @@ ("oidc-id" :> Dict(<<>>)))

PathSpecs == {PathSpecA, PathSpecB, PathSpecC}

TenantIds == {PyNone, PyStr(""), PyStr("a"), PyStr("a/b")}

EnvNames == {PyNone, PyStr(""), PyStr("a"), PyStr("b")}

----------------------------------------------------------------------------
(* PathBuilder *)

\* PathBuilder.__init__
PathBuilder(tid, env, config) ==
    [tenant_id |-> tid, environment |-> env, config |-> config]

\* the list comprehension [key for key in ... if key]
DropFalsy(values) == SelectSeq(values, Truthy)

\* PathBuilder._param_global_base(*keys)
ParamGlobalBase(keys) ==
    LET j == JoinSlash(DropFalsy(keys))
    IN  IF j.kind = "ok" THEN Ok("/" \o j.val) ELSE j

\* _param_base joining every component, empty ones included
ParamBaseKeepEmpty(self, keys) ==
    LET j == JoinSlash(<<self.tenant_id>> \o keys)
    IN  IF j.kind = "ok" THEN Ok("/" \o j.val) ELSE j

\* _param_base without the leading '/'
ParamBaseNoLeadingSlash(self, keys) ==
    JoinSlash(DropFalsy(<<self.tenant_id>> \o keys))

\* _param_base that leaves the tenant out
ParamBaseNoTenant(self, keys) == ParamGlobalBase(keys)

\* PathBuilder._param_base(self, *keys)
ParamBase(self, keys) ==
    LET j == JoinSlash(DropFalsy(<<self.tenant_id>> \o keys))
    IN  IF j.kind = "ok" THEN Ok("/" \o j.val) ELSE j

\* _param_env_base that leaves the environment out
ParamEnvBaseNoEnv(self, keys) == ParamBase(self, keys)

\* PathBuilder._param_env_base(self, *keys)
ParamEnvBase(self, keys) == ParamBase(self, <<self.environment>> \o keys)

\* the walk done with dict.get: an absent key yields None
RECURSIVE WalkGet(_, _)
WalkGet(node, keys) ==
    IF keys = <<>> THEN [st |-> "ok", node |-> node]
    ELSE IF node.k = "dict"
         THEN IF Head(keys) \in DOMAIN node.kids
              THEN WalkGet(node.kids[Head(keys)], Tail(keys))
              ELSE [st |-> "ok", node |-> [k |-> "leaf", v |-> PyNone, kids |-> <<>>]]
         ELSE [st |-> "TypeError", node |-> node]

\* the loop "for key in keys: path = path[key]"
RECURSIVE Walk(_, _)
Walk(node, keys) ==
    IF keys = <<>> THEN [st |-> "ok", node |-> node]
    ELSE IF node.k = "dict"
         THEN IF Head(keys) \in DOMAIN node.kids
              THEN Walk(node.kids[Head(keys)], Tail(keys))
              ELSE [st |-> "KeyError", node |-> node]
         \* subscripting a str, None or int with a str key
         ELSE [st |-> "TypeError", node |-> node]

\* get_ssm_path that ignores global_param
GetSsmPathIgnoreGlobal(self, keys, global_param) ==
    LET w == Walk(self.config, keys)
    IN  IF w.st = "KeyError"
        THEN Raise("ValueError", "Invalid parameter path: " \o Join("/", keys))
        ELSE IF w.st = "TypeError"
        THEN Raise("TypeError", "not subscriptable with a str")
        ELSE IF w.node.k = "dict"
        THEN Raise("ValueError",
                   "Invalid parameter path: " \o Join("/", keys) \o
                   ", expected a string but found a dictionary")
        ELSE ParamEnvBase(self, <<w.node.v>>)

\* get_ssm_path without the isinstance(path, dict) check: the mapping goes
\* to the join
GetSsmPathNoDictCheck(self, keys, global_param) ==
    LET w == Walk(self.config, keys)
    IN  IF w.st = "KeyError"
        THEN Raise("ValueError", "Invalid parameter path: " \o Join("/", keys))
        ELSE IF w.st = "TypeError"
        THEN Raise("TypeError", "not subscriptable with a str")
        ELSE IF w.node.k = "dict"
        THEN IF DOMAIN w.node.kids = {}
             THEN (IF global_param THEN ParamGlobalBase(<<>>)
                                   ELSE ParamEnvBase(self, <<>>))
             ELSE Raise("TypeError", "sequence item: expected str instance")
        ELSE IF global_param
        THEN ParamGlobalBase(<<w.node.v>>)
        ELSE ParamEnvBase(self, <<w.node.v>>)

\* PathBuilder.get_ssm_path(self, *keys, global_param)
GetSsmPath(self, keys, global_param) ==
    LET w == Walk(self.config, keys)
    IN  IF w.st = "KeyError"
        THEN Raise("ValueError", "Invalid parameter path: " \o Join("/", keys))
        ELSE IF w.st = "TypeError"
        THEN Raise("TypeError", "not subscriptable with a str")
        ELSE IF w.node.k = "dict"
        THEN Raise("ValueError",
                   "Invalid parameter path: " \o Join("/", keys) \o
                   ", expected a string but found a dictionary")
        ELSE IF global_param
        THEN ParamGlobalBase(<<w.node.v>>)
        ELSE ParamEnvBase(self, <<w.node.v>>)

\* get_ssm_path_all that leaves the environment out
GetSsmPathAllTenantWide(self) == ParamBase(self, <<PyStr("*")>>)

\* PathBuilder.get_ssm_path_all(self)
GetSsmPathAll(self) == ParamEnvBase(self, <<PyStr("*")>>)

----------------------------------------------------------------------------
(* Calls on PathBuilder instances *)

NoCall == [op |-> "none", keys |-> <<>>, global_param |-> FALSE, out |-> Ok("")]

\* get_ssm_path walking with self.config instead of a local variable
CallGetSsmPathRebind(i, keys, g) ==
    /\ i \in DOMAIN pbs
    /\ last' = [last EXCEPT ![i] =
                  [op |-> "get_ssm_path", keys |-> keys, global_param |-> g,
                   out |-> GetSsmPath(pbs[i], keys, g)]]
    /\ pbs' = [pbs EXCEPT ![i].config =
                  IF Walk(@, keys).st = "ok" THEN Walk(@, keys).node ELSE @]
    /\ UNCHANGED loads

\* a caller invokes get_ssm_path(*keys, global_param=g) on instance i
CallGetSsmPath(i, keys, g) ==
    /\ i \in DOMAIN pbs
    /\ last' = [last EXCEPT ![i] =
                  [op |-> "get_ssm_path", keys |-> keys, global_param |-> g,
                   out |-> GetSsmPath(pbs[i], keys, g)]]
    /\ UNCHANGED <<pbs, loads>>

\* get_ssm_path_all loading the path spec again before answering
CallGetSsmPathAllReload(i) ==
    /\ i \in DOMAIN pbs
    /\ last' = [last EXCEPT ![i] =
                  [op |-> "get_ssm_path_all", keys |-> <<>>,
                   global_param |-> FALSE, out |-> GetSsmPathAll(pbs[i])]]
    /\ loads' = [loads EXCEPT ![i] = @ + 1]
    /\ UNCHANGED pbs

\* a caller invokes get_ssm_path_all() on instance i
CallGetSsmPathAll(i) ==
    /\ i \in DOMAIN pbs
    /\ last' = [last EXCEPT ![i] =
                  [op |-> "get_ssm_path_all", keys |-> <<>>,
                   global_param |-> FALSE, out |-> GetSsmPathAll(pbs[i])]]
    /\ UNCHANGED <<pbs, loads>>

SameCall(c, d) ==
    c.op = d.op /\ c.keys = d.keys /\ c.global_param = d.global_param

\* history of the calls on instance 1: the first get_ssm_path call is kept,
\* and a later identical call is noted
Remember ==
    first' = IF last'[1].op # "get_ssm_path" THEN first
             ELSE IF first.call.op = "none"
                  THEN [call |-> last'[1], again |-> FALSE]
             ELSE IF SameCall(first.call, last'[1])
                  THEN [first EXCEPT !.again = TRUE]
             ELSE first

\* tenant_config before the dispatch has read it
NoTenantConfig == [enable_manual_approval |-> FALSE]

\* app.py variables while a PathBuilder is used on its own
AppIdle ==
    /\ pc = "library"
    /\ tenant_id = PyNone
    /\ target_env = PyNone
    /\ environments = <<>>
    /\ stacks = <<>>
    /\ valid_envs = <<>>
    /\ error = Ok("")
    /\ tenant_config = NoTenantConfig
    /\ pipeline = <<>>
    /\ notifications = <<>>
    /\ roles = {}
    /\ params = {}
    /\ grants = {}

\* load_configurations is not being called
LoadIdle ==
    /\ directory = <<>>
    /\ listed = <<>>
    /\ configurations = <<>>
    /\ lc = "idle"

\* no ToolchainStack is being constructed
TcIdle ==
    /\ ecr_repositories = <<>>
    /\ ecr_todo = <<>>
    /\ constructs = {}
    /\ repositories = <<>>

\* the database initializer is not invoked
DbIdle ==
    /\ pg = {}
    /\ script = PyNone
    /\ faults = {}
    /\ hc = "idle"
    /\ todo_dbs = <<>>
    /\ issued = <<>>
    /\ conn = "none"
    /\ responses = <<>>
    /\ runs = 0

\* one PathBuilder, constructed from any tenant, environment and path spec
InitPB ==
    /\ \E t \in TenantIds, e \in EnvNames, c \in PathSpecs :
          pbs = (1 :> PathBuilder(t, e, c))
    /\ last = (1 :> NoCall)
    /\ first = [call |-> NoCall, again |-> FALSE]
    /\ loads = [i \in DOMAIN pbs |-> 1]
    /\ AppIdle
    /\ LoadIdle
    /\ TcIdle
    /\ DbIdle

NextPB ==
    \/ \E keys \in KeySeqs, g \in BOOLEAN :
          CallGetSsmPath(1, keys, g) /\ Remember /\ UNCHANGED <<appVars, loadVars, tcVars, dbVars>>
    \/ CallGetSsmPathAll(1) /\ Remember /\ UNCHANGED <<appVars, loadVars, tcVars, dbVars>>

SpecPB == InitPB /\ [][NextPB]_vars

\* the identifiers of the two-instance runs: strings, empty ones included,
\* with two tenants that are each one path component
IsoTenantIds == {v \in TenantIds : v.t = "str"} \cup {PyStr("b")}

IsoEnvNames == {v \in EnvNames : v.t = "str"}

\* two PathBuilders over the same path spec
InitIso ==
    /\ \E t1 \in IsoTenantIds, e1 \in IsoEnvNames,
          t2 \in IsoTenantIds, e2 \in IsoEnvNames, c \in PathSpecs :
          pbs = (1 :> PathBuilder(t1, e1, c)) @@ (2 :> PathBuilder(t2, e2, c))
    /\ last = (1 :> NoCall) @@ (2 :> NoCall)
    /\ first = [call |-> NoCall, again |-> FALSE]
    /\ loads = [i \in DOMAIN pbs |-> 1]
    /\ AppIdle
    /\ LoadIdle
    /\ TcIdle
    /\ DbIdle

NextIso ==
    \/ \E i \in {1, 2}, keys \in KeySeqs, g \in BOOLEAN :
          CallGetSsmPath(i, keys, g) /\ UNCHANGED <<first, appVars, loadVars, tcVars, dbVars>>
    \/ \E i \in {1, 2} :
          CallGetSsmPathAll(i) /\ UNCHANGED <<first, appVars, loadVars, tcVars, dbVars>>

SpecIso == InitIso /\ [][NextIso]_vars

----------------------------------------------------------------------------
(* app.py: one invocation of the CDK application *)

\* the environments document, in file order: tenant -> environment names
EnvDocA == << [tenant |-> "acme", envs |-> <<"dev", "prod">>] >>

EnvDocB == << [tenant |-> "acme", envs |-> <<"dev">>],
              [tenant |-> "globex", envs |-> <<"dev", "qa">>] >>

EnvDocC == << [tenant |-> "acme", envs |-> <<>>],
              [tenant |-> "zeta", envs |-> <<"prod">>] >>

\* tenant and environment names holding the separator of the resource prefix
EnvDocD == << [tenant |-> "acme", envs |-> <<"dev-eu">>],
              [tenant |-> "acme-dev", envs |-> <<"eu">>] >>

EnvDocs == {EnvDocA, EnvDocB, EnvDocC, EnvDocD}

\* the values the context can hold for tenant_id and target_env
ContextTenantIds ==
    {PyNone, PyStr(""), PyStr("acme"), PyStr("globex"), PyStr("initech"),
     PyStr("acme-dev")}

ContextEnvNames ==
    {PyNone, PyStr("dev"), PyStr("prod"), PyStr("qa"), PyStr("dev-eu"),
     PyStr("eu")}

\* environments[tenant], the environment names of a tenant
EnvsOf(doc, tenant) ==
    LET i == CHOOSE i \in 1..Len(doc) : doc[i].tenant = tenant
    IN  doc[i].envs

\* tenant_id in environments
HasTenant(doc, tid) ==
    tid.t = "str" /\ \E i \in 1..Len(doc) : doc[i].tenant = tid.s

\* the check reduced to the tenant
ValidArgumentsTenantOnly(doc, tid, env) == HasTenant(doc, tid)

\* tenant_id in environments and target_env in environments[tenant_id]
ValidArguments(doc, tid, env) ==
    /\ HasTenant(doc, tid)
    /\ env.t = "str"
    /\ \E j \in 1..Len(EnvsOf(doc, tid.s)) : EnvsOf(doc, tid.s)[j] = env.s

\* the enumeration with one entry per tenant
ValidEnvsFirstOnly(doc) ==
    LET withEnv == SelectSeq(doc, LAMBDA d : d.envs # <<>>)
    IN  [i \in 1..Len(withEnv) |->
            "Tenant: " \o withEnv[i].tenant \o ", Environment: " \o
            withEnv[i].envs[1]]

\* the comprehension that builds valid_envs
RECURSIVE ValidEnvs(_)
ValidEnvs(doc) ==
    IF doc = <<>> THEN <<>>
    ELSE [j \in 1..Len(doc[1].envs) |->
             "Tenant: " \o doc[1].tenant \o ", Environment: " \o doc[1].envs[j]]
         \o ValidEnvs(Tail(doc))

\* resource_prefix = f"{tenant_id}-{target_env}"
ResourcePrefix(tid, env) == Format(tid) \o "-" \o Format(env)

\* the path spec handed to the application's PathBuilder: every key the
\* stacks and the pipeline look up, each naming its own parameter
SsmPaths ==
    Dict(("vpc" :> Dict(("s3-endpoint-id" :> Leaf(PyStr("vpc/s3-endpoint-id")))
                     @@ ("id" :> Leaf(PyStr("vpc/id")))
                     @@ ("cidr-block" :> Leaf(PyStr("vpc/cidr-block")))
                     @@ ("availability-zones" :>
                            Leaf(PyStr("vpc/availability-zones")))))
      @@ ("acm" :> Dict(("certificate-arn" :>
                            Leaf(PyStr("acm/certificate-arn")))))
      @@ ("eks" :> Dict(("oidc-id" :> Leaf(PyStr("eks/oidc-id")))))
      @@ ("efs" :> Dict(("file-system-id" :>
                            Leaf(PyStr("efs/file-system-id"))))))

\* the path spec without the entry at key1/key2
Without(spec, key1, key2) ==
    Dict([k \in DOMAIN spec.kids |->
            IF k # key1 THEN spec.kids[k]
            ELSE Dict([j \in DOMAIN spec.kids[k].kids \ {key2} |->
                         spec.kids[k].kids[j]])])

\* path specs an invocation may find in config/ssm_paths.yaml
SsmPathSpecs ==
    {SsmPaths,
     Without(SsmPaths, "vpc", "id"),
     Without(SsmPaths, "acm", "certificate-arn"),
     Without(SsmPaths, "eks", "oidc-id"),
     Without(SsmPaths, "efs", "file-system-id")}

\* the parameters VpcStack names, in the order of its constructor
VpcStackPaths ==
    << <<"vpc", "s3-endpoint-id">>, <<"vpc", "id">>, <<"vpc", "cidr-block">>,
       <<"vpc", "availability-zones">> >>

\* the parameter AcmStack names
AcmStackPaths == << <<"acm", "certificate-arn">> >>

\* an entry of the pipeline
Stage(name) == [kind |-> "stage", name |-> name]

----------------------------------------------------------------------------
(* stacks/toolchain_stack.py: ToolchainStack.__init__ *)

\* the longest list of repositories of a namespace
MaxRepos == 2

EcrNamespaces == {"team", "team-a"}

EcrRepos == {"api", "a-api"}

RepoLists == UNION {[1..n -> EcrRepos] : n \in 0..MaxRepos}

\* props.ecr_repositories: namespaces in the order of the mapping, each with
\* its list of repositories
EcrConfigs ==
    {<<[namespace |-> ns, repositories |-> l]>> :
        ns \in EcrNamespaces, l \in RepoLists}
    \cup
    {c \in {<<[namespace |-> n1, repositories |-> l1],
               [namespace |-> n2, repositories |-> l2]>> :
                n1 \in EcrNamespaces, n2 \in EcrNamespaces,
                l1 \in RepoLists, l2 \in RepoLists} :
        c[1].namespace # c[2].namespace}

\* the (namespace, repo) entries in the order the two loops visit them
RECURSIVE Entries(_)
Entries(config) ==
    IF config = <<>> THEN <<>>
    ELSE [i \in 1..Len(Head(config).repositories) |->
             <<Head(config).namespace, Head(config).repositories[i]>>]
         \o Entries(Tail(config))

\* construct_id_for_repo = f"{namespace}-{repo}"
ConstructIdForRepo(entry) == entry[1] \o "-" \o entry[2]

\* repository_name = f"{namespace}/{repo}"
RepositoryName(entry) == entry[1] \o "/" \o entry[2]

\* one iteration: ecr.Repository(self, id=..., repository_name=...); a
\* construct id already present in the scope makes the constructor raise
CreateRepository ==
    /\ pc = "toolchain"
    /\ ecr_todo # <<>>
    /\ IF ConstructIdForRepo(Head(ecr_todo)) \in constructs
       THEN /\ error' = Raise("RuntimeError",
                    "There is already a Construct with name '"
                    \o ConstructIdForRepo(Head(ecr_todo)) \o "'")
            /\ pc' = "failed"
            /\ UNCHANGED <<ecr_todo, constructs, repositories>>
       ELSE /\ constructs' = constructs \cup {ConstructIdForRepo(Head(ecr_todo))}
            /\ repositories' = Append(repositories,
                                      RepositoryName(Head(ecr_todo)))
            /\ ecr_todo' = Tail(ecr_todo)
            /\ UNCHANGED <<pc, error>>
    /\ UNCHANGED <<ecr_repositories, tenant_id, target_env, environments,
                   stacks, valid_envs, asmVars, pbVars, loadVars, dbVars>>

\* the loops are over: the constructor returns to app.py
ToolchainBuilt ==
    /\ pc = "toolchain"
    /\ ecr_todo = <<>>
    /\ pc' = "synth"
    /\ UNCHANGED <<tenant_id, target_env, environments, stacks, valid_envs,
                   error, asmVars, pbVars, loadVars, tcVars, dbVars>>

----------------------------------------------------------------------------

\* load_configurations()["ecr_repositories"] and
\* load_configurations()["environments"]
LoadConfigurations ==
    /\ pc = "start"
    /\ \E c \in EcrConfigs : ecr_repositories' = c
    /\ \E doc \in EnvDocs : environments' = doc
    /\ pc' = "loaded"
    /\ UNCHANGED <<tenant_id, target_env, stacks, valid_envs, error, pbVars,
                   asmVars, loadVars, ecr_todo, constructs, repositories,
                   dbVars>>

\* if not tenant_id: ToolchainStack(app, "infra-toolchain", ...): the stack
\* joins the app and its constructor starts the loops over
\* props.ecr_repositories
DeployToolchain ==
    /\ pc = "loaded"
    /\ ~Truthy(tenant_id)
    /\ stacks' = Append(stacks, "infra-toolchain")
    /\ ecr_todo' = Entries(ecr_repositories)
    /\ pc' = "toolchain"
    /\ UNCHANGED <<tenant_id, target_env, environments, valid_envs, error,
                   pbVars, asmVars, loadVars, ecr_repositories, constructs,
                   repositories, dbVars>>

\* the PathBuilder constructed ahead of the test of the pair
ConstructPathBuilderUnvalidated ==
    /\ pc = "loaded"
    /\ Truthy(tenant_id)
    /\ \E b \in BOOLEAN : tenant_config' = [enable_manual_approval |-> b]
    /\ \E c \in SsmPathSpecs :
          pbs' = (1 :> PathBuilder(tenant_id, target_env, c))
    /\ loads' = (1 :> 1)
    /\ last' = (1 :> NoCall)
    /\ pc' = "pipeline"
    /\ UNCHANGED <<first, tenant_id, target_env, environments, stacks,
                   valid_envs, error, pipeline, notifications, roles, params,
                   grants, loadVars, tcVars, dbVars>>

\* elif ...: tenant_config = environments[tenant_id][target_env], then
\* path_builder = PathBuilder(tenant_id, target_env, "config/ssm_paths.yaml")
ConstructPathBuilder ==
    /\ pc = "loaded"
    /\ Truthy(tenant_id)
    /\ ValidArguments(environments, tenant_id, target_env)
    /\ \E b \in BOOLEAN : tenant_config' = [enable_manual_approval |-> b]
    /\ \E c \in SsmPathSpecs :
          pbs' = (1 :> PathBuilder(tenant_id, target_env, c))
    /\ loads' = (1 :> 1)
    /\ last' = (1 :> NoCall)
    /\ pc' = "pipeline"
    /\ UNCHANGED <<first, tenant_id, target_env, environments, stacks,
                   valid_envs, error, pipeline, notifications, roles, params,
                   grants, loadVars, tcVars, dbVars>>

\* InfraPipelineStack(app, f"{resource_prefix}-infra-pipeline", ...): the
\* stack is registered in the app, the CodeBuild role and the CodePipeline
\* are created; the pipeline has no stage or wave yet
ConstructInfraPipelineStack ==
    /\ pc = "pipeline"
    /\ stacks' = Append(stacks,
                   ResourcePrefix(tenant_id, target_env) \o "-infra-pipeline")
    /\ pipeline' = <<>>
    /\ pc' = "network"
    /\ UNCHANGED <<tenant_id, target_env, environments, valid_envs, error,
                   pbVars, tenant_config, notifications, roles, params,
                   grants, loadVars, tcVars, dbVars>>

\* the lookups of a construct, made in order on one PathBuilder: the call
\* that raised, or the last call when none raised
RECURSIVE LookupAll(_, _)
LookupAll(self, paths) ==
    LET c == [op |-> "get_ssm_path", keys |-> Head(paths),
              global_param |-> FALSE,
              out |-> GetSsmPath(self, Head(paths), FALSE)]
    IN  IF Len(paths) = 1 \/ c.out.kind # "ok" THEN c
        ELSE LookupAll(self, Tail(paths))

\* the parameter names a constructor obtains from its lookups: those of
\* the calls that return, up to the first call that raises
RECURSIVE Named(_, _)
Named(self, paths) ==
    IF paths = <<>> THEN {}
    ELSE LET out == GetSsmPath(self, Head(paths), FALSE)
         IN  IF out.kind # "ok" THEN {}
             ELSE {out.val} \cup Named(self, Tail(paths))

\* an SSM parameter name used by a stack of the stage called stage
Param(name, stage) == [name |-> name, stage |-> stage]

\* DEPLOYMENT_ACCOUNT_ID of config.py
DeploymentAccountId == ""

\* tenant_config["account"]
TargetAccountId == "222222222222"

\* an IAM role created by a stack of the stage called stage
Role(account, name, stage) ==
    [account |-> account, name |-> name, stage |-> stage]

\* NetworkStage(...) builds VpcStack, which names its parameters through the
\* PathBuilder, and DnsRoleStack (a role in the deployment account, granted
\* the parameters under /acm/); then pipeline.add_stage(network_stage)
AddNetworkStage ==
    /\ pc = "network"
    /\ LET c == LookupAll(pbs[1], VpcStackPaths)
       IN  /\ last' = [last EXCEPT ![1] = c]
           /\ params' = params \cup
                 {Param(n, ResourcePrefix(tenant_id, target_env) \o "-network")
                    : n \in Named(pbs[1], VpcStackPaths)}
           /\ IF c.out.kind # "ok"
              THEN /\ error' = c.out
                   /\ pc' = "failed"
                   /\ UNCHANGED <<pipeline, roles, grants>>
              ELSE /\ pipeline' = Append(pipeline,
                         Stage(ResourcePrefix(tenant_id, target_env)
                               \o "-network"))
                   /\ roles' = roles \cup
                         {Role(DeploymentAccountId,
                               ResourcePrefix(tenant_id, target_env)
                               \o "-dns-validation-role",
                               ResourcePrefix(tenant_id, target_env)
                               \o "-network")}
                   /\ grants' = grants \cup {"/acm/*"}
                   /\ pc' = "infra"
                   /\ UNCHANGED error
    /\ UNCHANGED <<pbs, loads, first, tenant_id, target_env, environments,
                   stacks, valid_envs, tenant_config, notifications, loadVars, tcVars, dbVars>>

\* InfraStage(...) builds VpcImportStack, CodeBuildRoleStack (two roles: the
\* eksctl role is allowed ssm:* on every resource, the ssm role
\* ssm:GetParameter on the tenant's parameters) and AcmStack. AcmStack first
\* builds a PythonFunction from the directory lambdas/validate_cert, which
\* raises when the directory is not in the checkout, and then names its
\* parameter through the PathBuilder. InfraStage then names EfsStack, which
\* its module does not import, so the constructor raises in every case and
\* pipeline.add_stage(infra_stage) is not reached
AddInfraStage ==
    /\ pc = "infra"
    /\ \E entry_found \in BOOLEAN :
          IF ~entry_found
          THEN /\ error' = Raise("RuntimeError",
                                 "Cannot find index file at "
                                 \o "lambdas/validate_cert/index.py")
               /\ UNCHANGED <<last, params>>
          ELSE LET c == LookupAll(pbs[1], AcmStackPaths)
               IN  /\ last' = [last EXCEPT ![1] = c]
                   /\ error' = IF c.out.kind # "ok" THEN c.out
                               ELSE Raise("NameError",
                                          "name 'EfsStack' is not defined")
                   /\ params' = params \cup
                         {Param(n, ResourcePrefix(tenant_id, target_env)
                                     \o "-infra")
                            : n \in Named(pbs[1], AcmStackPaths)}
    /\ roles' = roles \cup
          {Role(TargetAccountId,
                ResourcePrefix(tenant_id, target_env) \o r,
                ResourcePrefix(tenant_id, target_env) \o "-infra") :
             r \in {"-eksctl-codebuild-role", "-ssm-role"}}
    /\ grants' = grants \cup
          {"*",
           "/" \o Format(tenant_id) \o "/" \o Format(target_env) \o "/*"}
    /\ pc' = "failed"
    /\ UNCHANGED <<pbs, loads, first, tenant_id, target_env, environments,
                   stacks, valid_envs, tenant_config, pipeline, notifications,
                   loadVars, tcVars, dbVars>>

\* else: raise ValueError(...) with the enumeration of the valid pairs
RaiseInvalidArguments ==
    /\ pc = "loaded"
    /\ Truthy(tenant_id)
    /\ ~ValidArguments(environments, tenant_id, target_env)
    /\ valid_envs' = ValidEnvs(environments)
    /\ error' = Raise("ValueError",
                      "Invalid arguments: " \o Format(tenant_id) \o ", " \o
                      Format(target_env) \o ". Valid arguments are: " \o
                      Join("; ", valid_envs'))
    /\ pc' = "failed"
    /\ UNCHANGED <<tenant_id, target_env, environments, stacks, pbVars,
                   asmVars, loadVars, tcVars, dbVars>>

\* app.synth()
Synth ==
    /\ pc = "synth"
    /\ pc' = "done"
    /\ UNCHANGED <<tenant_id, target_env, environments, stacks, valid_envs,
                   error, pbVars, asmVars, loadVars, tcVars, dbVars>>

InitApp ==
    /\ pc = "start"
    /\ tenant_id \in ContextTenantIds
    /\ target_env \in ContextEnvNames
    /\ environments = <<>>
    /\ stacks = <<>>
    /\ valid_envs = <<>>
    /\ error = Ok("")
    /\ pbs = <<>>
    /\ last = <<>>
    /\ first = [call |-> NoCall, again |-> FALSE]
    /\ loads = <<>>
    /\ tenant_config = NoTenantConfig
    /\ pipeline = <<>>
    /\ notifications = <<>>
    /\ roles = {}
    /\ params = {}
    /\ grants = {}
    /\ LoadIdle
    /\ TcIdle
    /\ DbIdle

NextApp ==
    \/ LoadConfigurations
    \/ DeployToolchain
    \/ CreateRepository
    \/ ToolchainBuilt
    \/ ConstructPathBuilder
    \/ ConstructInfraPipelineStack
    \/ AddNetworkStage
    \/ AddInfraStage
    \/ RaiseInvalidArguments
    \/ Synth

SpecApp == InitApp /\ [][NextApp]_vars

----------------------------------------------------------------------------
(* Properties of PathBuilder *)

Missing == [k |-> "missing", v |-> PyNone, kids |-> <<>>]

Front(seq) == SubSeq(seq, 1, Len(seq) - 1)

\* what the key sequence designates in the path spec: a mapping, a leaf,
\* or nothing
RECURSIVE NodeAt(_, _)
NodeAt(config, keys) ==
    IF keys = <<>> THEN config
    ELSE LET parent == NodeAt(config, Front(keys))
         IN  IF parent.k = "dict" /\ keys[Len(keys)] \in DOMAIN parent.kids
             THEN parent.kids[keys[Len(keys)]]
             ELSE Missing

\* the key sequence resolves to a string segment
ResolvesToString(config, keys) ==
    NodeAt(config, keys).k = "leaf" /\ NodeAt(config, keys).v.t = "str"

Segment(config, keys) == NodeAt(config, keys).v.s

NonEmptyStr(v) == v.t = "str" /\ v.s # ""

\* a non-global get_ssm_path call whose keys resolve to a string segment
ScopedLookup(i) ==
    /\ last[i].op = "get_ssm_path"
    /\ ~last[i].global_param
    /\ ResolvesToString(pbs[i].config, last[i].keys)

\* a global get_ssm_path call whose keys resolve to a string segment
GlobalLookup(i) ==
    /\ last[i].op = "get_ssm_path"
    /\ last[i].global_param
    /\ ResolvesToString(pbs[i].config, last[i].keys)

ScopePrefix(self) ==
    "/" \o Format(self.tenant_id) \o "/" \o Format(self.environment) \o "/"

\* C1 as stated: every non-global lookup of a segment returns a string that
\* begins with /{tenant_id}/{environment}/
C1_AsStated ==
    \A i \in DOMAIN pbs :
        ScopedLookup(i) =>
            /\ last[i].out.kind = "ok"
            /\ StartsWith(last[i].out.val, ScopePrefix(pbs[i]))

\* C1: when tenant_id, environment and the resolved segment are non-empty
\* strings, a non-global get_ssm_path returns a string that begins with
\* /{tenant_id}/{environment}/
C1_ScopedPrefix ==
    \A i \in DOMAIN pbs :
        ( /\ ScopedLookup(i)
          /\ NonEmptyStr(pbs[i].tenant_id)
          /\ NonEmptyStr(pbs[i].environment)
          /\ Segment(pbs[i].config, last[i].keys) # "" ) =>
            /\ last[i].out.kind = "ok"
            /\ StartsWith(last[i].out.val, ScopePrefix(pbs[i]))

C1_Witness ==
    /\ ScopedLookup(1)
    /\ pbs[1].tenant_id = PyStr("a/b")
    /\ pbs[1].environment = PyStr("b")
    /\ last[1].out = Ok("/a/b/b/eks/oidc-id")

\* the two instances are scoped to different (tenant_id, environment) pairs
DifferentScopes ==
    /\ DOMAIN pbs = {1, 2}
    /\ <<pbs[1].tenant_id, pbs[1].environment>> #
       <<pbs[2].tenant_id, pbs[2].environment>>

\* get_ssm_path_all of instance j returned a wildcard, and the non-global
\* path returned to instance i lies under its prefix
UnderWildcard(i, j) ==
    /\ last[i].op = "get_ssm_path" /\ ~last[i].global_param
    /\ last[i].out.kind = "ok"
    /\ last[j].op = "get_ssm_path_all" /\ last[j].out.kind = "ok"
    /\ EndsWith(last[j].out.val, "*")
    /\ StartsWith(last[i].out.val,
                  SubSeq(last[j].out.val, 1, Len(last[j].out.val) - 1))

\* both instances returned a non-global path, and it is the same string
SamePath ==
    /\ \A i \in {1, 2} :
          /\ last[i].op = "get_ssm_path" /\ ~last[i].global_param
          /\ last[i].out.kind = "ok"
    /\ last[1].out.val = last[2].out.val

\* C2 as stated: instances whose (tenant_id, environment) pairs differ never
\* return the same non-global path, and no path of one lies under the
\* wildcard of the other
C2_AsStated ==
    DifferentScopes => ~SamePath /\ ~UnderWildcard(1, 2) /\ ~UnderWildcard(2, 1)

\* a tenant_id or environment that is one path component
OneComponent(v) == NonEmptyStr(v) /\ ~Contains(v.s, "/")

\* C2: for two instances over the same path spec whose (tenant_id,
\* environment) pairs differ and whose tenant_id and environment are each a
\* non-empty string without '/', the non-global paths differ and no path of
\* one lies under the wildcard of the other
C2_Isolation ==
    ( /\ DifferentScopes
      /\ \A i \in {1, 2} : /\ OneComponent(pbs[i].tenant_id)
                             /\ OneComponent(pbs[i].environment) ) =>
        ~SamePath /\ ~UnderWildcard(1, 2) /\ ~UnderWildcard(2, 1)

C2_Witness ==
    /\ DifferentScopes
    /\ pbs[1].tenant_id # pbs[2].tenant_id
    /\ pbs[1].environment = pbs[2].environment
    /\ \A i \in {1, 2} : /\ OneComponent(pbs[i].tenant_id)
                           /\ OneComponent(pbs[i].environment)
    /\ last[1].op = "get_ssm_path" /\ ~last[1].global_param
    /\ last[1].keys = <<"eks", "oidc-id">>
    /\ last[1].out.kind = "ok"
    /\ last[2] = [last[1] EXCEPT !.out = last[2].out]
    /\ last[2].out.kind = "ok"

\* x occurs in the path as a sequence of whole components
HasSegment(path, x) ==
    x.t = "str" /\ x.s # "" /\ Contains(path \o "/", "/" \o x.s \o "/")

\* C3 as stated: a global lookup returns a string that begins with '/' and
\* has neither tenant_id nor environment as a path segment
C3_AsStated ==
    \A i \in DOMAIN pbs :
        GlobalLookup(i) =>
            /\ last[i].out.kind = "ok"
            /\ StartsWith(last[i].out.val, "/")
            /\ ~HasSegment(last[i].out.val, pbs[i].tenant_id)
            /\ ~HasSegment(last[i].out.val, pbs[i].environment)

\* C3: a global lookup of a string segment returns '/' followed by the
\* segment and nothing else, whatever tenant_id and environment are
C3_GlobalPath ==
    \A i \in DOMAIN pbs :
        GlobalLookup(i) =>
            last[i].out = Ok("/" \o Segment(pbs[i].config, last[i].keys))

C3_Witness ==
    /\ GlobalLookup(1)
    /\ NonEmptyStr(pbs[1].tenant_id)
    /\ NonEmptyStr(pbs[1].environment)
    /\ last[1].out = Ok("/eks/oidc-id")

\* the walk of the call's keys ends on a sub-mapping
EndsOnMapping(i) ==
    /\ last[i].op = "get_ssm_path"
    /\ NodeAt(pbs[i].config, last[i].keys).k = "dict"

\* C4: a key sequence that ends on a sub-mapping makes get_ssm_path raise
\* ValueError, for global and non-global lookups alike
C4_MappingRejected ==
    \A i \in DOMAIN pbs :
        EndsOnMapping(i) => last[i].out.kind = "ValueError"

C4_Witness ==
    /\ EndsOnMapping(1)
    /\ last[1].keys = <<"eks">>
    /\ last[1].global_param
    /\ first.call.keys = <<>> /\ first.call.out.kind = "ValueError"

\* some key of the call is absent from the mapping its predecessors reach
KeyAbsent(i) ==
    /\ last[i].op = "get_ssm_path"
    /\ \E n \in 1..Len(last[i].keys) :
          LET parent == NodeAt(pbs[i].config, SubSeq(last[i].keys, 1, n - 1))
          IN  parent.k = "dict" /\ last[i].keys[n] \notin DOMAIN parent.kids

\* C5: a key absent from the mapping reached so far makes get_ssm_path raise
\* ValueError, with the key path joined by '/' in the message
C5_AbsentKeyRejected ==
    \A i \in DOMAIN pbs :
        KeyAbsent(i) =>
            /\ last[i].out.kind = "ValueError"
            /\ EndsWith(last[i].out.val, ": " \o Join("/", last[i].keys))

C5_Witness ==
    /\ KeyAbsent(1)
    /\ last[1].keys = <<"eks", "eks">>
    /\ last[1].out = Raise("ValueError", "Invalid parameter path: eks/eks")

\* a component that brings no empty component of its own
Clean(v) ==
    v.t = "str" =>
        /\ ~StartsWith(v.s, "/") /\ ~EndsWith(v.s, "/")
        /\ ~Contains(v.s, "//")

\* exactly one leading '/', and no empty component after it
WellFormedPath(path) ==
    /\ StartsWith(path, "/") /\ ~StartsWith(path, "//")
    /\ ~Contains(path, "//")
    /\ path # "/" => ~EndsWith(path, "/")

FalsyId(v) == v = PyNone \/ v = PyStr("")

\* C6: with tenant_id, environment or the segment empty or missing, the
\* string returned by get_ssm_path and get_ssm_path_all still starts with
\* exactly one '/' and has no empty component
C6_NoEmptyComponent ==
    \A i \in DOMAIN pbs :
        ( /\ last[i].op # "none"
          /\ last[i].out.kind = "ok"
          /\ Clean(pbs[i].tenant_id) /\ Clean(pbs[i].environment)
          /\ last[i].op = "get_ssm_path" =>
                Clean(NodeAt(pbs[i].config, last[i].keys).v) ) =>
            WellFormedPath(last[i].out.val)

C6_Witness ==
    /\ FalsyId(pbs[1].tenant_id)
    /\ pbs[1].environment = PyStr("b")
    /\ last[1].op = "get_ssm_path"
    /\ NodeAt(pbs[1].config, last[1].keys) = Leaf(PyStr(""))
    /\ last[1].out = Ok("/b")

\* C7 as stated: get_ssm_path_all returns /{tenant_id}/{environment}/*
C7_AsStated ==
    \A i \in DOMAIN pbs :
        last[i].op = "get_ssm_path_all" =>
            last[i].out = Ok(ScopePrefix(pbs[i]) \o "*")

\* C7: when tenant_id and environment are non-empty strings,
\* get_ssm_path_all returns exactly /{tenant_id}/{environment}/*, whatever
\* the path spec holds
C7_Wildcard ==
    \A i \in DOMAIN pbs :
        ( /\ last[i].op = "get_ssm_path_all"
          /\ NonEmptyStr(pbs[i].tenant_id)
          /\ NonEmptyStr(pbs[i].environment) ) =>
            last[i].out = Ok(ScopePrefix(pbs[i]) \o "*")

C7_Witness ==
    /\ last[1].op = "get_ssm_path_all"
    /\ pbs[1].tenant_id = PyStr("a")
    /\ pbs[1].environment = PyStr("b")
    /\ pbs[1].config = PathSpecC
    /\ last[1].out = Ok("/a/b/*")

\* C8: a get_ssm_path call with the keys and flag of the first call has the
\* outcome of the first call, whatever was called in between
C8_SameOutcome ==
    ( /\ DOMAIN pbs = {1}
      /\ last[1].op = "get_ssm_path"
      /\ SameCall(first.call, last[1]) ) =>
        last[1].out = first.call.out

C8_Witness ==
    /\ first.again
    /\ SameCall(first.call, last[1])
    /\ last[1].out.kind = "ok"

----------------------------------------------------------------------------
(* Properties of the tenant/environment dispatch *)

\* the (tenant, environment) pairs present in the environments tree
PairsOf(doc) ==
    UNION {{<<doc[i].tenant, doc[i].envs[j]>> : j \in 1..Len(doc[i].envs)} :
              i \in 1..Len(doc)}

\* environments[tenant_id][target_env] exists
PairInTree ==
    /\ tenant_id.t = "str" /\ target_env.t = "str"
    /\ <<tenant_id.s, target_env.s>> \in PairsOf(environments)

Finished == pc \in {"done", "failed"}

\* C9 as stated: every pair that is absent from the tree ends the invocation
\* in the validation error, with no stack created
C9_AsStated ==
    (Finished /\ ~PairInTree) => error.kind = "ValueError" /\ stacks = <<>>

\* C9: when tenant_id is given (non-empty) and environments[tenant_id]
\* [target_env] does not exist, the invocation fails with ValueError and no
\* stack is created, for an unknown tenant and for an unknown environment
\* of a known tenant alike
C9_InvalidPairFails ==
    (pc # "start" /\ Truthy(tenant_id) /\ ~PairInTree) =>
        /\ stacks = <<>>
        /\ pbs = <<>>
        /\ pc # "loaded" => pc = "failed" /\ error.kind = "ValueError"

C9_Witness ==
    /\ pc = "failed"
    /\ error.kind = "ValueError"
    /\ tenant_id = PyStr("acme")
    /\ target_env = PyStr("qa")
    /\ environments = EnvDocB
    /\ stacks = <<>>

Elements(seq) == {seq[i] : i \in 1..Len(seq)}

\* C10: the message of the validation error enumerates exactly the pairs of
\* the environments tree, once each, as 'Tenant: X, Environment: Y'
C10_Enumeration ==
    (pc = "failed" /\ error.kind = "ValueError" /\ ~PairInTree) =>
        /\ Elements(valid_envs) =
             {"Tenant: " \o pr[1] \o ", Environment: " \o pr[2] :
                  pr \in PairsOf(environments)}
        /\ Len(valid_envs) = Cardinality(PairsOf(environments))
        /\ EndsWith(error.val,
                    "Valid arguments are: " \o Join("; ", valid_envs))

C10_Witness ==
    /\ pc = "failed"
    /\ environments = EnvDocA
    /\ error = Raise("ValueError",
                     "Invalid arguments: initech, dev. Valid arguments are: " \o
                     "Tenant: acme, Environment: dev; " \o
                     "Tenant: acme, Environment: prod")

----------------------------------------------------------------------------
(* Properties of the dispatch outcome and of the pipeline assembly *)

PipelineStackId == ResourcePrefix(tenant_id, target_env) \o "-infra-pipeline"

\* every key the stacks and the pipeline look up resolves
CompletePathSpec == pbs # <<>> /\ pbs[1].config = SsmPaths

\* C11: the dispatch has exactly one outcome: without a tenant_id the
\* invocation completes with only the toolchain stack, whatever target_env
\* is; with a pair of the environments tree it creates only the tenant's
\* infra pipeline stack, and completes when the path spec is complete;
\* otherwise it fails; the toolchain stack and a pipeline stack are never
\* both created
C11_OneOutcome ==
    /\ Finished =>
          IF ~Truthy(tenant_id)
          THEN pc = "done" /\ stacks = <<"infra-toolchain">>
          ELSE IF PairInTree
          THEN /\ stacks = <<PipelineStackId>>
               /\ CompletePathSpec => pc = "done"
          ELSE pc = "failed" /\ stacks = <<>>
    /\ ~({"infra-toolchain", PipelineStackId} \subseteq Elements(stacks))

\* the invocation took the pipeline branch with a complete path spec, and
\* has ended
Assembled == Finished /\ Truthy(tenant_id) /\ PairInTree /\ CompletePathSpec

\* the place of the entry called name in the pipeline, 0 when it has none
Position(name) ==
    IF \E i \in 1..Len(pipeline) : pipeline[i].name = name
    THEN CHOOSE i \in 1..Len(pipeline) : pipeline[i].name = name
    ELSE 0

NetworkStageId == ResourcePrefix(tenant_id, target_env) \o "-network"

InfraStageId == ResourcePrefix(tenant_id, target_env) \o "-infra"

PostDeployStageId == ResourcePrefix(tenant_id, target_env) \o "-post-deploy"

\* C12: in the pipeline InfraPipelineStack produces, for both values of
\* enable_manual_approval, the Network stage comes before the Infra stage,
\* that before the deploy-eks-cluster wave, that before the Post-deploy
\* stage, that before the config-eks-cluster wave, that before the
\* deploy-apps-into-cluster wave; the approval wave, when there is one, lies
\* strictly between the config wave and the deploy-apps wave
C12_EntryOrder ==
    Assembled =>
        /\ 0 < Position(NetworkStageId)
        /\ Position(NetworkStageId) < Position(InfraStageId)
        /\ Position(InfraStageId) < Position("deploy-eks-cluster-wave")
        /\ Position("deploy-eks-cluster-wave") < Position(PostDeployStageId)
        /\ Position(PostDeployStageId) < Position("config-eks-cluster-wave")
        /\ Position("config-eks-cluster-wave")
              < Position("deploy-apps-into-cluster-wave")
        /\ Position("eks-cluster-approval-wave") # 0 =>
              /\ Position("config-eks-cluster-wave")
                    < Position("eks-cluster-approval-wave")
              /\ Position("eks-cluster-approval-wave")
                    < Position("deploy-apps-into-cluster-wave")

\* the approval gates of the pipeline: the waves holding the manual approval
ApprovalGates ==
    {i \in 1..Len(pipeline) : pipeline[i].name = "eks-cluster-approval-wave"}

\* C13: assembling with enable_manual_approval false produces no approval
\* gate and no notification binding; assembling with it true produces
\* exactly one approval gate and exactly one notification binding
C13_ConditionalGate ==
    Assembled =>
        IF tenant_config.enable_manual_approval
        THEN Cardinality(ApprovalGates) = 1 /\ Len(notifications) = 1
        ELSE Cardinality(ApprovalGates) = 0 /\ Len(notifications) = 0

\* C14: with enable_manual_approval set, the approval gate is the entry
\* immediately before the deploy-apps-into-cluster wave, so the manual
\* approval runs before every step of that wave
C14_GateBeforeApps ==
    (Assembled /\ tenant_config.enable_manual_approval) =>
        /\ Position("eks-cluster-approval-wave") # 0
        /\ Position("deploy-apps-into-cluster-wave")
              = Position("eks-cluster-approval-wave") + 1

\* infra_config["email_subscriptions"] of the scenario
EmailSubscriptions == <<"ops@example.com", "oncall@example.com">>

\* the events of the notification rule
LifecycleEvents ==
    {"codepipeline-pipeline-pipeline-execution-started",
     "codepipeline-pipeline-pipeline-execution-failed",
     "codepipeline-pipeline-pipeline-execution-succeeded",
     "codepipeline-pipeline-manual-approval-needed"}

\* C15: for a tenant/environment of the tree with enable_manual_approval
\* true and two email subscriptions, the assembled pipeline has the seven
\* entries Network, Infra, deploy-eks-cluster, Post-deploy,
\* config-eks-cluster, approval, deploy-apps-into-cluster in this order,
\* then one notification binding (eight parts in all) whose subscribers are
\* exactly the configured addresses and whose events are exactly the four
\* lifecycle events
C15_ApprovalScenario ==
    (Assembled /\ tenant_config.enable_manual_approval) =>
        /\ [i \in 1..Len(pipeline) |-> pipeline[i].name] =
              <<NetworkStageId, InfraStageId, "deploy-eks-cluster-wave",
                PostDeployStageId, "config-eks-cluster-wave",
                "eks-cluster-approval-wave", "deploy-apps-into-cluster-wave">>
        /\ Len(pipeline) + Len(notifications) = 8
        /\ \A i \in 1..Len(notifications) :
              /\ notifications[i].subscriptions = EmailSubscriptions
              /\ notifications[i].events = LifecycleEvents

\* the path keys of the waves' environment variables
WaveKeys ==
    {<<"eks", "oidc-id">>, <<"acm", "certificate-arn">>,
     <<"efs", "file-system-id">>}

Resolves(keys) == GetSsmPath(pbs[1], keys, FALSE).kind = "ok"

\* the PathBuilder of the invocation cannot resolve some wave key
Unresolvable == pbs # <<>> /\ \E keys \in WaveKeys : ~Resolves(keys)

\* C16: whenever the PathBuilder of the invocation cannot resolve the path
\* key of some wave's environment variable, the invocation ends in an
\* error, nothing is synthesized, and no stage or wave has been appended to
\* the pipeline
C16_AsStated ==
    (Finished /\ Unresolvable) =>
        pc = "failed" /\ error.kind # "ok" /\ pipeline = <<>>

----------------------------------------------------------------------------
(* config/config.py: load_configurations *)

\* os.path.splitext(name)[0]: the name up to its last dot, unless nothing
\* but dots precedes that dot
LastDot(name) ==
    LET dots == {i \in 1..Len(name) : SubSeq(name, i, i) = "."}
    IN  IF dots = {} THEN 0 ELSE CHOOSE i \in dots : \A j \in dots : j <= i

SplitextRoot(name) ==
    IF \E j \in 1..(LastDot(name) - 1) : SubSeq(name, j, j) # "."
    THEN SubSeq(name, 1, LastDot(name) - 1)
    ELSE name

\* filename.endswith('.yaml') or filename.endswith('.yml')
IsYaml(name) == EndsWith(name, ".yaml") \/ EndsWith(name, ".yml")

\* directories the function may list: file name -> parsed content
DirA ==
    ("config.yaml" :> "deploy settings") @@ ("environments.yaml" :> "tenants")
    @@ ("ecr_repositories.yaml" :> "repositories") @@ ("config.py" :> "code")

DirB ==
    ("environments.yaml" :> "tenants") @@ ("environments.yml" :> "old tenants")
    @@ ("config.yaml" :> "deploy settings") @@ ("config.py" :> "code")

DirC ==
    ("config.yml" :> "deploy settings") @@ ("ssm.paths.yaml" :> "paths")
    @@ ("notes.yaml.txt" :> "notes")

Directories == {DirA, DirB, DirC}

\* os.listdir(dir): the names of the directory in an arbitrary order
Listings(dir) ==
    {order \in [1..Cardinality(DOMAIN dir) -> DOMAIN dir] :
        \A i, j \in DOMAIN order : i # j => order[i] # order[j]}

\* one iteration of the loop: configurations[key_name] = yaml.safe_load(file)
LoadOne(dir, confs, name) ==
    IF IsYaml(name)
    THEN [k \in DOMAIN confs \cup {SplitextRoot(name)} |->
            IF k = SplitextRoot(name) THEN dir[name] ELSE confs[k]]
    ELSE confs

\* the whole loop over a listing
RECURSIVE LoadAll(_, _, _)
LoadAll(dir, confs, order) ==
    IF order = <<>> THEN confs
    ELSE LoadAll(dir, LoadOne(dir, confs, Head(order)), Tail(order))

\* configurations = {}; for filename in os.listdir(...)
ListDir ==
    /\ lc = "start"
    /\ configurations' = <<>>
    /\ \E order \in Listings(directory) : listed' = order
    /\ lc' = "loop"
    /\ UNCHANGED <<directory, pbVars, appVars,
                   tcVars, dbVars>>

\* a .yaml or .yml file: parse it and store it under its key
LoadFile ==
    /\ lc = "loop"
    /\ listed # <<>>
    /\ IsYaml(Head(listed))
    /\ configurations' = LoadOne(directory, configurations, Head(listed))
    /\ listed' = Tail(listed)
    /\ UNCHANGED <<directory, lc, pbVars, appVars,
                   tcVars, dbVars>>

\* any other file is passed over
SkipFile ==
    /\ lc = "loop"
    /\ listed # <<>>
    /\ ~IsYaml(Head(listed))
    /\ listed' = Tail(listed)
    /\ UNCHANGED <<directory, configurations, lc, pbVars, appVars,
                   tcVars, dbVars>>

\* return configurations
ReturnConfigurations ==
    /\ lc = "loop"
    /\ listed = <<>>
    /\ lc' = "returned"
    /\ UNCHANGED <<directory, listed, configurations, pbVars, appVars,
                   tcVars, dbVars>>

InitLoad ==
    /\ directory \in Directories
    /\ listed = <<>>
    /\ configurations = <<>>
    /\ lc = "start"
    /\ pbs = <<>>
    /\ last = <<>>
    /\ first = [call |-> NoCall, again |-> FALSE]
    /\ loads = <<>>
    /\ AppIdle
    /\ TcIdle
    /\ DbIdle

NextLoad == ListDir \/ LoadFile \/ SkipFile \/ ReturnConfigurations

SpecLoad == InitLoad /\ [][NextLoad]_vars

----------------------------------------------------------------------------
(* Properties of load_configurations *)

\* a file name without its .yaml or .yml ending
Stripped(name) ==
    IF EndsWith(name, ".yaml") THEN SubSeq(name, 1, Len(name) - 5)
    ELSE SubSeq(name, 1, Len(name) - 4)

\* C17: after load_configurations returns, every .yaml / .yml document of
\* the directory is in the tree under its extension-stripped file name with
\* its own parsed content: no document is replaced by another
C17_EveryDocumentPresent ==
    lc = "returned" =>
        \A name \in DOMAIN directory :
            IsYaml(name) =>
                /\ Stripped(name) \in DOMAIN configurations
                /\ configurations[Stripped(name)] = directory[name]

\* C18: the tree returned depends only on the files present: every order
\* of listing the directory yields the tree this call returned
C18_OrderIrrelevant ==
    lc = "returned" =>
        \A order \in Listings(directory) :
            LoadAll(directory, <<>>, order) = configurations

----------------------------------------------------------------------------
(* Frame of the PathBuilder calls, and order of the invocation's steps *)

\* C19: tenant_id, environment and the loaded path spec of a PathBuilder are
\* those of its construction after every get_ssm_path and get_ssm_path_all
\* call, successful or failing, and the instance has read its path spec
\* source exactly once
C19_Frame ==
    [][\A i \in DOMAIN pbs :
          /\ i \in DOMAIN pbs'
          /\ pbs'[i] = pbs[i]
          /\ loads[i] = 1
          /\ loads'[i] = 1]_vars

C19_Witness ==
    /\ first.call.out.kind = "ok"
    /\ last[1].op = "get_ssm_path"
    /\ last[1].out.kind = "ValueError"
    /\ pbs[1] = PathBuilder(PyStr("a"), PyStr("b"), PathSpecA)
    /\ loads[1] = 1

\* the pipeline assembly has begun
AssemblyBegun == PipelineStackId \in Elements(stacks) \/ pipeline # <<>>

\* C20: within one invocation the configuration is loaded, then the pair is
\* validated, then the PathBuilder is constructed, then the pipeline is
\* assembled: a PathBuilder exists only for a loaded tree holding the pair,
\* the assembly begins only once the PathBuilder exists, and when the
\* validation fails there is neither a PathBuilder nor a pipeline stack
C20_StepOrder ==
    /\ pbs # <<>> =>
          /\ environments # <<>>
          /\ Truthy(tenant_id)
          /\ PairInTree
          /\ pc \notin {"start", "loaded"}
    /\ AssemblyBegun => pbs # <<>> /\ pc \notin {"start", "loaded", "pipeline"}
    /\ (pc # "start" /\ Truthy(tenant_id) /\ ~PairInTree) =>
          pbs = <<>> /\ ~AssemblyBegun

C20_Witness ==
    /\ pc = "infra"
    /\ environments = EnvDocB
    /\ pbs # <<>>
    /\ pbs[1].tenant_id = tenant_id
    /\ stacks = <<PipelineStackId>>
    /\ pipeline = <<Stage(NetworkStageId)>>

----------------------------------------------------------------------------
(* Error class of get_ssm_path *)

\* C21: every get_ssm_path call, whatever the path spec and the key
\* sequence, either returns a path or raises the path-resolution error
\* (ValueError): a key sequence that continues past a scalar leaf, or a leaf
\* that is not a string, raises that error and no other exception
C21_SingleErrorClass ==
    \A i \in DOMAIN pbs :
        last[i].op = "get_ssm_path" => last[i].out.kind \in {"ok", "ValueError"}

----------------------------------------------------------------------------
(* Roles, parameter names and stages of the tenant pipeline *)

\* build_role_arn(account, role_name) of InfraPipelineStack.__init__
BuildRoleArn(account, role_name) ==
    "arn:aws:iam::" \o account \o ":role/"
    \o ResourcePrefix(tenant_id, target_env) \o "-" \o role_name

\* the ARN of a role a stack has created
RoleArn(r) == "arn:aws:iam::" \o r.account \o ":role/" \o r.name

\* the role ARNs in the environment of the step of a wave
WaveRoleArns(wave) ==
    IF wave = "deploy-eks-cluster-wave"
    THEN {BuildRoleArn(TargetAccountId, "eksctl-codebuild-role")}
    ELSE IF wave = "config-eks-cluster-wave"
    THEN {BuildRoleArn(TargetAccountId, "eksctl-codebuild-role"),
          BuildRoleArn(DeploymentAccountId, "externaldns-role"),
          BuildRoleArn(TargetAccountId, "externaldns-sa-role"),
          BuildRoleArn(TargetAccountId, "secrets-manager-sa-role")}
    ELSE IF wave = "deploy-apps-into-cluster-wave"
    THEN {BuildRoleArn(TargetAccountId, "eksctl-codebuild-role")}
    ELSE {}

\* C23: every role ARN in the environment of a wave's step names, by account
\* and role name, a role created by a stack of a stage placed earlier in the
\* pipeline than the wave: the deploy-eks-cluster wave uses the role of the
\* Infra stage, the config-eks-cluster wave also those of the Post-deploy
\* stage before it
C23_RolesFromEarlierStages ==
    Assembled =>
        \A wave \in {"deploy-eks-cluster-wave", "config-eks-cluster-wave",
                     "deploy-apps-into-cluster-wave"} :
            /\ Position(wave) # 0
            /\ \A arn \in WaveRoleArns(wave) :
                  \E r \in roles :
                      /\ RoleArn(r) = arn
                      /\ 0 < Position(r.stage)
                      /\ Position(r.stage) < Position(wave)

\* the path keys in the environment of the step of a wave
WavePathKeys(wave) ==
    IF wave = "deploy-eks-cluster-wave" THEN {<<"eks", "oidc-id">>}
    ELSE IF wave = "config-eks-cluster-wave"
    THEN {<<"acm", "certificate-arn">>, <<"efs", "file-system-id">>}
    ELSE IF wave = "deploy-apps-into-cluster-wave"
    THEN {<<"acm", "certificate-arn">>}
    ELSE {}

\* C24: for every tenant and environment, the path a wave passes to its
\* step for acm/certificate-arn, efs/file-system-id or eks/oidc-id is the
\* very parameter name that the stack writing or reading the key uses, and
\* the stack writing acm/certificate-arn or efs/file-system-id belongs to a
\* stage placed before the consuming wave
C24_ProducersConsumersAgree ==
    Assembled =>
        \A wave \in {"deploy-eks-cluster-wave", "config-eks-cluster-wave",
                     "deploy-apps-into-cluster-wave"} :
            /\ Position(wave) # 0
            /\ \A keys \in WavePathKeys(wave) :
                  \E p \in params :
                      /\ p.name = GetSsmPath(pbs[1], keys, FALSE).val
                      /\ keys # <<"eks", "oidc-id">> =>
                            /\ 0 < Position(p.stage)
                            /\ Position(p.stage) < Position(wave)

\* '/{tenant_id}/{environment}/' of the invocation
TenantScope == "/" \o Format(tenant_id) \o "/" \o Format(target_env) \o "/"

\* C25: every SSM parameter name a stack of the tenant pipeline writes or
\* reads, and every SSM parameter pattern an IAM policy of such a stack
\* grants, lies under '/{tenant_id}/{environment}/'
C25_AllScoped ==
    /\ \A p \in params : StartsWith(p.name, TenantScope)
    /\ \A g \in grants : StartsWith(g, TenantScope)

\* C26: two different (namespace, repository) entries of ecr_repositories
\* never get the same construct id, and when the invocation that built the
\* toolchain stack has ended exactly one repository named '{namespace}/{repo}' exists per entry
C26_UniqueConstructIds ==
    (pc \in {"done", "failed"} /\ stacks = <<"infra-toolchain">>) =>
        /\ \A i, j \in 1..Len(Entries(ecr_repositories)) :
              Entries(ecr_repositories)[i] # Entries(ecr_repositories)[j] =>
                 ConstructIdForRepo(Entries(ecr_repositories)[i])
                   # ConstructIdForRepo(Entries(ecr_repositories)[j])
        /\ repositories = [i \in 1..Len(Entries(ecr_repositories)) |->
                              RepositoryName(Entries(ecr_repositories)[i])]


\* ---------------------------------------------------------------------
\* Construction of the stages
\* ---------------------------------------------------------------------

\* the service-account roles ExDnsSaRoleStack creates in the Post-deploy stage
ServiceAccountRoles ==
    {ResourcePrefix(tenant_id, target_env) \o r :
        r \in {"-externaldns-sa-role", "-secrets-manager-sa-role",
               "-map-service-sa-role"}}

\* C27: for a pair of the environments tree and a complete path spec, the
\* construction of the Network, Infra and Post-deploy stages raises nothing:
\* the invocation ends without an error, the three stages are entries of the
\* pipeline, and the Post-deploy stage has created its three service-account
\* roles
C27_StagesConstruct ==
    Assembled =>
        /\ error.kind = "ok"
        /\ \A id \in {NetworkStageId, InfraStageId, PostDeployStageId} :
              Position(id) > 0
        /\ \A n \in ServiceAccountRoles : \E r \in roles : r.name = n


\* ---------------------------------------------------------------------
\* The resource prefix as a name
\* ---------------------------------------------------------------------

\* the pairs of the environments tree other than the invocation's own
OtherPairs == PairsOf(environments) \ {<<tenant_id.s, target_env.s>>}

\* C28: once the invocation for a pair of the environments tree has named its
\* pipeline stack, no other pair of the tree yields the same resource
\* prefix, the same pipeline stack id, or the name of a role this
\* invocation has created
C28_PrefixDistinct ==
    (PairInTree /\ stacks # <<>>) =>
        \A q \in OtherPairs :
           /\ ResourcePrefix(PyStr(q[1]), PyStr(q[2]))
                 # ResourcePrefix(tenant_id, target_env)
           /\ ResourcePrefix(PyStr(q[1]), PyStr(q[2])) \o "-infra-pipeline"
                 \notin Elements(stacks)
           /\ \A r \in roles :
                 r.name # ResourcePrefix(PyStr(q[1]), PyStr(q[2]))
                            \o "-eksctl-codebuild-role"


-----------------------------------------------------------------------------
(* lambdas/db_initializer/lambda_function.py: the database initializer *)

\* str.find(sub, start) counted from 1: the first place at or after start
\* where sub occurs in s, 0 when there is none
Find(s, sub, start) ==
    LET places == {i \in start..(Len(s) - Len(sub) + 1) :
                      SubSeq(s, i, i + Len(sub) - 1) = sub}
    IN  IF places = {} THEN 0
        ELSE CHOOSE i \in places : \A j \in places : i <= j

\* s.split(sep)
RECURSIVE Split(_, _)
Split(s, sep) ==
    LET i == Find(s, sep, 1)
    IN  IF i = 0 THEN <<s>>
        ELSE <<SubSeq(s, 1, i - 1)>>
               \o Split(SubSeq(s, i + Len(sep), Len(s)), sep)

CreatePrefix == "CREATE DATABASE \""

\* re.search(r'CREATE DATABASE "([^"]+)"', statement): the leftmost place
\* where the prefix is followed by at least one character that is not a
\* quote and then by a quote; group(1) is the text between the quotes
ReSearch(statement) ==
    LET matches ==
          {i \in 1..(Len(statement) - Len(CreatePrefix)) :
              /\ SubSeq(statement, i, i + Len(CreatePrefix) - 1) = CreatePrefix
              /\ SubSeq(statement, i + Len(CreatePrefix),
                        i + Len(CreatePrefix)) # "\""
              /\ Find(statement, "\"", i + Len(CreatePrefix) + 1) # 0}
    IN  IF matches = {} THEN [found |-> FALSE, group |-> ""]
        ELSE LET i == CHOOSE i \in matches : \A j \in matches : i <= j
                 n == i + Len(CreatePrefix)
             IN  [found |-> TRUE,
                  group |-> SubSeq(statement, n,
                                   Find(statement, "\"", n + 1) - 1)]

\* the loop of parse_db_config_sql over the pieces of the script
RECURSIVE Databases(_)
Databases(statements) ==
    IF statements = <<>> THEN <<>>
    ELSE LET statement == Head(statements)
         IN  (IF Contains(statement, "CREATE DATABASE")
                    /\ ReSearch(statement).found
              THEN <<ReSearch(statement).group>>
              ELSE <<>>) \o Databases(Tail(statements))

\* parse_db_config_sql for a file that exists
ParseDbConfigSql(sql_content) == Databases(Split(sql_content, "SELECT"))

\* the scripts packaged with the function
ScriptA ==
    "SELECT 'CREATE DATABASE \"app\"';SELECT 'CREATE DATABASE \"map-db\"';"

ScriptB == "SELECT 'CREATE DATABASE \"app\"';SELECT 'CREATE DATABASE \"app\"';"

ScriptC == "CREATE DATABASE \"a\";CREATE DATABASE \"b\";SELECT 1;"

ScriptD == "SELECT 'CREATE DATABASE \"\"';SELECT 'CREATE DATABASE app';"

Scripts == {PyStr(ScriptA), PyStr(ScriptB), PyStr(ScriptC), PyStr(ScriptD),
            PyNone}

\* the databases the server can hold before the first run
DatabaseNames == {"app", "map-db", "a"}

ServerStates == {{"postgres"} \cup d : d \in SUBSET DatabaseNames}

\* what can fail in an environment: reading the secret, connecting, and
\* creating a database (the role lacks CREATEDB)
FaultSets == SUBSET {"credentials", "connect", "create"}

MaxRuns == 2

Returned(code) == [kind |-> "returned", statusCode |-> code]

Raised == [kind |-> "raised", statusCode |-> 0]

Statement(stmt, db, answer) ==
    [run |-> runs, stmt |-> stmt, db |-> db, answer |-> answer]

\* the invocation of handler(event, context)
Invoke ==
    /\ hc \in {"idle", "end"}
    /\ runs < MaxRuns
    /\ runs' = runs + 1
    /\ hc' = "credentials"
    /\ conn' = "none"
    /\ todo_dbs' = <<>>
    /\ UNCHANGED <<pg, script, faults, issued, responses>>

\* credential = getCredentials(); db_script_name = os.environ[...]: both
\* before the try statement, so an exception leaves the handler
GetCredentials ==
    /\ hc = "credentials"
    /\ IF "credentials" \in faults
       THEN responses' = Append(responses, Raised) /\ hc' = "end"
       ELSE hc' = "connect" /\ UNCHANGED responses
    /\ UNCHANGED <<pg, script, faults, todo_dbs, issued, conn, runs>>

\* psycopg2.connect(...), autocommit and connection.cursor(), inside the try
Connect ==
    /\ hc = "connect"
    /\ IF "connect" \in faults
       THEN /\ responses' = Append(responses, Returned(500))
            /\ hc' = "end"
            /\ UNCHANGED conn
       ELSE /\ conn' = "open"
            /\ hc' = "parse"
            /\ UNCHANGED responses
    /\ UNCHANGED <<pg, script, faults, todo_dbs, issued, runs>>

\* databases = parse_db_config_sql(script_path): open() raises when the file
\* is missing, and the except branch of the handler returns 500
ParseScript ==
    /\ hc = "parse"
    /\ IF script = PyNone
       THEN /\ responses' = Append(responses, Returned(500))
            /\ hc' = "end"
            /\ UNCHANGED todo_dbs
       ELSE /\ todo_dbs' = ParseDbConfigSql(script.s)
            /\ hc' = "loop"
            /\ UNCHANGED responses
    /\ UNCHANGED <<pg, script, faults, issued, conn, runs>>

\* the existence query with its answer ignored
QueryExistsUnchecked ==
    /\ hc = "loop"
    /\ todo_dbs # <<>>
    /\ issued' = Append(issued,
                        Statement("exists", Head(todo_dbs),
                                  IF Head(todo_dbs) \in pg THEN "row"
                                  ELSE "no row"))
    /\ hc' = "create"
    /\ UNCHANGED <<pg, script, faults, todo_dbs, conn, responses, runs>>

\* one turn of "for db in databases", first half: the existence query and
\* exists = cursor.fetchone(); with a row the turn is over, without one the
\* handler goes on to CREATE DATABASE
QueryExists ==
    /\ hc = "loop"
    /\ todo_dbs # <<>>
    /\ issued' = Append(issued,
                        Statement("exists", Head(todo_dbs),
                                  IF Head(todo_dbs) \in pg THEN "row"
                                  ELSE "no row"))
    /\ IF Head(todo_dbs) \in pg
       THEN todo_dbs' = Tail(todo_dbs) /\ UNCHANGED hc
       ELSE hc' = "create" /\ UNCHANGED todo_dbs
    /\ UNCHANGED <<pg, script, faults, conn, responses, runs>>

\* second half: cursor.execute(f'CREATE DATABASE "{db}"'), a second round
\* trip to the server; a statement the server rejects (the role may not
\* create databases, or the database exists by now) raises, and the except
\* branch returns 500
CreateDatabase ==
    /\ hc = "create"
    /\ LET db == Head(todo_dbs)
       IN  IF "create" \in faults \/ db \in pg
           THEN /\ issued' = Append(issued,
                                    Statement("create", db,
                                              IF "create" \in faults
                                              THEN "denied" ELSE "duplicate"))
                /\ responses' = Append(responses, Returned(500))
                /\ hc' = "end"
                /\ UNCHANGED <<pg, todo_dbs>>
           ELSE /\ issued' = Append(issued, Statement("create", db, "created"))
                /\ pg' = pg \cup {db}
                /\ todo_dbs' = Tail(todo_dbs)
                /\ hc' = "loop"
                /\ UNCHANGED responses
    /\ UNCHANGED <<script, faults, conn, runs>>

\* the server is shared: another client (another invocation of the function,
\* which runs with autocommit) creates a database
OtherClientCreates ==
    /\ \E db \in DatabaseNames \ pg : pg' = pg \cup {db}
    /\ UNCHANGED <<script, faults, hc, todo_dbs, issued, conn, responses, runs>>

\* after the loop: SELECT version(), cursor.close(), connection.close() and
\* the return of statusCode 200
ReturnCompleted ==
    /\ hc = "loop"
    /\ todo_dbs = <<>>
    /\ issued' = Append(issued, Statement("version", "", "row"))
    /\ conn' = "closed"
    /\ responses' = Append(responses, Returned(200))
    /\ hc' = "end"
    /\ UNCHANGED <<pg, script, faults, todo_dbs, runs>>

InitDb ==
    /\ pg \in ServerStates
    /\ script \in Scripts
    /\ faults \in FaultSets
    /\ hc = "idle"
    /\ todo_dbs = <<>>
    /\ issued = <<>>
    /\ conn = "none"
    /\ responses = <<>>
    /\ runs = 0
    /\ pbs = <<>> /\ last = <<>> /\ loads = <<>>
    /\ first = [call |-> NoCall, again |-> FALSE]
    /\ AppIdle
    /\ LoadIdle
    /\ TcIdle

NextDb ==
    /\ \/ Invoke
       \/ GetCredentials
       \/ Connect
       \/ ParseScript
       \/ QueryExists
       \/ CreateDatabase
       \/ OtherClientCreates
       \/ ReturnCompleted
    /\ UNCHANGED <<pbVars, appVars, loadVars, tcVars>>

SpecDb == InitDb /\ [][NextDb]_vars


\* the names parse_db_config_sql finds in the script
ParsedNames ==
    IF script = PyNone THEN {} ELSE Elements(ParseDbConfigSql(script.s))

\* C29: CREATE DATABASE is issued for a name exactly when the existence query
\* for it has just returned no row; once a run has returned 200 every parsed
\* name is a database of the server; no database is created that a statement
\* before had shown to exist; and the run that follows a run that returned
\* 200 issues no CREATE DATABASE
C29_CreateIffAbsent ==
    /\ \A k \in DOMAIN issued :
          (issued[k].stmt = "exists" /\ issued[k].answer = "no row") =>
             \/ /\ k + 1 \in DOMAIN issued
                /\ issued[k + 1].stmt = "create"
                /\ issued[k + 1].db = issued[k].db
                /\ issued[k + 1].run = issued[k].run
             \/ /\ k = Len(issued)
                /\ hc = "create"
                /\ Head(todo_dbs) = issued[k].db
                /\ runs = issued[k].run
    /\ \A k \in DOMAIN issued :
          issued[k].stmt = "create" =>
             /\ k - 1 \in DOMAIN issued
             /\ issued[k - 1] = [run |-> issued[k].run, stmt |-> "exists",
                                 db |-> issued[k].db, answer |-> "no row"]
             /\ issued[k].db \in ParsedNames
             /\ issued[k].answer = "created" =>
                   \A j \in 1..(k - 1) :
                      issued[j].db = issued[k].db =>
                         issued[j].answer \in {"no row", "denied"}
    /\ (\E r \in DOMAIN responses : responses[r].statusCode = 200) =>
          ParsedNames \subseteq pg
    /\ \A k \in DOMAIN issued :
          (issued[k].run > 1
              /\ responses[issued[k].run - 1].statusCode = 200) =>
             issued[k].stmt # "create"

\* two runs have returned 200; the first found one database and created
\* another, the second found every name
C29_Witness ==
    /\ hc = "end"
    /\ Len(responses) = 2
    /\ responses[1].statusCode = 200
    /\ responses[2].statusCode = 200
    /\ \E k \in DOMAIN issued :
          issued[k].run = 1 /\ issued[k].stmt = "create"
              /\ issued[k].answer = "created"
    /\ \E k \in DOMAIN issued :
          issued[k].run = 1 /\ issued[k].stmt = "exists"
              /\ issued[k].answer = "row"
    /\ \E k \in DOMAIN issued :
          issued[k].run = 2 /\ issued[k].stmt = "exists"
    /\ \A k \in DOMAIN issued : issued[k].run = 2 => issued[k].stmt # "create"

\* C30: a run that has ended has returned a value, statusCode 200 or 500 and
\* never an exception, and has left no connection open
C30_ValueAndRelease ==
    hc = "end" =>
        /\ responses[runs].kind = "returned"
        /\ responses[runs].statusCode \in {200, 500}
        /\ conn \in {"none", "closed"}

====
